---- MODULE Spec2Model ----
(***************************************************************************)
(* Model of yorm's base classes (yorm/base.py): the Mappable attribute     *)
(* interception protocol, and the Dictionary and List container            *)
(* converters with their per-class `yorm_attrs` registries.                *)
(*                                                                         *)
(* Python values are tagged records with one fixed set of fields, so that  *)
(* any two values can be compared.  A Python str is a sequence of          *)
(* one-character strings; a Python dict is a sequence of <<key, value>>    *)
(* pairs with distinct keys, in insertion order.                           *)
(***************************************************************************)
EXTENDS Integers, Sequences, FiniteSets, TLC

----------------------------------------------------------------------------
(* Python values *)

None == [t |-> "none", n |-> 0, s |-> <<>>, l |-> <<>>, d |-> <<>>]

IntV(k) == [t |-> "int", n |-> k, s |-> <<>>, l |-> <<>>, d |-> <<>>]

StrV(cs) == [t |-> "str", n |-> 0, s |-> cs, l |-> <<>>, d |-> <<>>]

ListV(items) == [t |-> "list", n |-> 0, s |-> <<>>, l |-> items, d |-> <<>>]

DictV(pairs) == [t |-> "dict", n |-> 0, s |-> <<>>, l |-> <<>>, d |-> pairs]

\* the outcome of an attribute lookup that raises AttributeError
Absent == [t |-> "absent", n |-> 0, s |-> <<>>, l |-> <<>>, d |-> <<>>]

----------------------------------------------------------------------------
(* Python dict operations on sequences of <<key, value>> pairs *)

Keys(pairs) == {pairs[i][1] : i \in 1..Len(pairs)}

KeySeq(pairs) == [i \in 1..Len(pairs) |-> pairs[i][1]]

HasKey(pairs, k) == \E i \in 1..Len(pairs) : pairs[i][1] = k

\* dict.get(k, dflt)
DGet(pairs, k, dflt) ==
    IF HasKey(pairs, k)
    THEN pairs[CHOOSE i \in 1..Len(pairs) : pairs[i][1] = k][2]
    ELSE dflt

\* d[k] = v : overwrite in place, or append a new key
DSet(pairs, k, v) ==
    IF HasKey(pairs, k)
    THEN [i \in 1..Len(pairs) |-> IF pairs[i][1] = k THEN <<k, v>> ELSE pairs[i]]
    ELSE Append(pairs, <<k, v>>)

\* d.pop(k) for a key that is present
DPop(pairs, k) == SelectSeq(pairs, LAMBDA p : p[1] # k)

----------------------------------------------------------------------------
(* Python str operations on sequences of characters *)

IsSpace(c) == c \in {" ", "\t"}

RECURSIVE LStrip(_)
LStrip(cs) ==
    IF cs # <<>> /\ IsSpace(Head(cs)) THEN LStrip(Tail(cs)) ELSE cs

RECURSIVE RStrip(_)
RStrip(cs) ==
    IF cs # <<>> /\ IsSpace(cs[Len(cs)])
    THEN RStrip(SubSeq(cs, 1, Len(cs) - 1))
    ELSE cs

\* str.strip()
Strip(cs) == RStrip(LStrip(cs))

Contains(cs, c) == \E i \in 1..Len(cs) : cs[i] = c

\* str.split(sep) for a one-character sep: empty parts are kept
RECURSIVE SplitOn(_, _, _, _)
SplitOn(cs, sep, cur, acc) ==
    IF cs = <<>> THEN Append(acc, cur)
    ELSE IF Head(cs) = sep
         THEN SplitOn(Tail(cs), sep, <<>>, Append(acc, cur))
         ELSE SplitOn(Tail(cs), sep, Append(cur, Head(cs)), acc)

Split(cs, sep) == SplitOn(cs, sep, <<>>, <<>>)

\* str.split(): split on runs of whitespace, empty parts are dropped
RECURSIVE SplitWs(_, _, _)
SplitWs(cs, cur, acc) ==
    IF cs = <<>> THEN (IF cur = <<>> THEN acc ELSE Append(acc, cur))
    ELSE IF IsSpace(Head(cs))
         THEN SplitWs(Tail(cs), <<>>, IF cur = <<>> THEN acc ELSE Append(acc, cur))
         ELSE SplitWs(Tail(cs), Append(cur, Head(cs)), acc)

SplitWhitespace(cs) == SplitWs(cs, <<>>, <<>>)

----------------------------------------------------------------------------
(* Dictionary.to_dict and List.to_list *)

\* to_dict on the text as it is, leading and trailing whitespace kept
to_dict_unstripped(obj) ==
    IF obj.t = "dict" THEN obj.d
    ELSE IF obj.t = "str"
         THEN LET parts == Split(obj.s, "=")
              IN  IF Len(parts) = 2
                  THEN << <<parts[1], StrV(parts[2])>> >>
                  ELSE << <<obj.s, None>> >>
         ELSE <<>>

\* Dictionary.to_dict(obj): the result is a dict, as a sequence of pairs
to_dict(obj) ==
    IF obj.t = "dict" THEN obj.d
    ELSE IF obj.t = "str"
         THEN LET text == Strip(obj.s)
                  parts == Split(text, "=")
              IN  IF Len(parts) = 2
                  THEN << <<parts[1], StrV(parts[2])>> >>
                  ELSE << <<text, None>> >>
         ELSE <<>>

\* to_list without its first branch: a list is wrapped like any other object
to_list_wrapped(obj) ==
    IF obj.t = "str"
    THEN LET text == Strip(obj.s)
             parts == IF Contains(text, ",") /\ ~Contains(text, " ")
                      THEN Split(text, ",")
                      ELSE SplitWhitespace(text)
         IN  [i \in 1..Len(parts) |-> StrV(parts[i])]
    ELSE IF obj # None THEN <<obj>>
         ELSE <<>>

\* to_list splitting on commas only when the string, as it is, has no
\* whitespace character at all
to_list_whitespace(obj) ==
    IF obj.t = "list" THEN obj.l
    ELSE IF obj.t = "str"
         THEN LET parts == IF Contains(obj.s, ",")
                              /\ ~\E i \in 1..Len(obj.s) : IsSpace(obj.s[i])
                           THEN Split(obj.s, ",")
                           ELSE SplitWhitespace(obj.s)
              IN  [i \in 1..Len(parts) |-> StrV(parts[i])]
         ELSE IF obj # None THEN <<obj>>
              ELSE <<>>

\* List.to_list(obj): the result is a list, as a sequence of values
to_list(obj) ==
    IF obj.t = "list" THEN obj.l
    ELSE IF obj.t = "str"
         THEN LET text == Strip(obj.s)
                  parts == IF Contains(text, ",") /\ ~Contains(text, " ")
                           THEN Split(text, ",")
                           ELSE SplitWhitespace(text)
              IN  [i \in 1..Len(parts) |-> StrV(parts[i])]
         ELSE IF obj # None THEN <<obj>>
              ELSE <<>>

----------------------------------------------------------------------------
(* Leaf converters and converter inference (the `standard` module) *)

Digits == <<"0", "1", "2", "3", "4", "5", "6", "7", "8", "9">>

IsDigit(c) == \E i \in 1..10 : Digits[i] = c

DigitVal(c) == (CHOOSE i \in 1..10 : Digits[i] = c) - 1

IsNumeral(cs) == cs # <<>> /\ \A i \in 1..Len(cs) : IsDigit(cs[i])

RECURSIVE ParseInt(_, _)
ParseInt(cs, acc) ==
    IF cs = <<>> THEN acc ELSE ParseInt(Tail(cs), acc * 10 + DigitVal(Head(cs)))

RECURSIVE FormatInt(_)
FormatInt(k) ==
    IF k < 10 THEN <<Digits[k + 1]>>
    ELSE Append(FormatInt(k \div 10), Digits[(k % 10) + 1])

LeafConverters == {"Integer", "String", "Object"}

\* Converter.to_value of a leaf converter; to_value(None) is its DEFAULT
LeafToValue(converter, obj) ==
    CASE converter = "Integer" ->
           IF obj.t = "int" THEN obj
           ELSE IF obj.t = "str" /\ IsNumeral(Strip(obj.s))
                THEN IntV(ParseInt(Strip(obj.s), 0))
                ELSE IntV(0)
      [] converter = "String" ->
           IF obj.t = "str" THEN obj
           ELSE IF obj.t = "int" THEN StrV(FormatInt(obj.n))
                ELSE StrV(<<>>)
      [] OTHER -> obj

\* Converter.to_data of a leaf converter
LeafToData(converter, obj) == LeafToValue(converter, obj)

\* standard.match(data): the converter inferred for new data
match(data) ==
    IF data.t = "int" THEN "Integer"
    ELSE IF data.t = "str" THEN "String"
         ELSE "Object"

----------------------------------------------------------------------------
(* Container converter classes and their registries *)

\* List.ALL
ALL == <<"a", "l", "l">>

ListClasses == {"List", "IntList", "BareList"}

\* Dictionary, its subclasses D1 and D2, and the subclass D1a of D1
DictClasses == {"Dictionary", "D1", "D2", "D1a"}

\* the class of the mapped object; its yorm_attrs is the object's schema
MappableClasses == {"Sample"}

Classes == ListClasses \cup DictClasses \cup MappableClasses

\* ContainerMeta.__init__: every class starts with its own empty registry
ContainerMeta == [cls \in Classes |-> <<>>]

\* one yorm_attrs on each base class, which its subclasses inherit
Owner_inherited(cls) ==
    IF cls \in DictClasses THEN "Dictionary"
    ELSE IF cls \in ListClasses THEN "List" ELSE cls

\* the class on which the lookup cls.yorm_attrs finds the registry:
\* ContainerMeta.__init__ sets the attribute on every class it initializes
Owner(cls) == cls

\* cls.yorm_attrs
Registry(attrs, cls) == attrs[Owner(cls)]

\* the result of a conversion: its value, the registries afterwards, and
\* whether it raised NotImplementedError
Ok(v, attrs) == [val |-> v, attrs |-> attrs, err |-> FALSE]

Raise(attrs) == [val |-> None, attrs |-> attrs, err |-> TRUE]

\* List.item_type: cls.yorm_attrs.get(cls.ALL)
item_type(cls, attrs) == DGet(Registry(attrs, cls), ALL, "NoneType")

\* List.to_value, the loop over to_list(obj); the item converter is a leaf
\* converter
RECURSIVE ListLoad(_, _, _)
ListLoad(converter, items, value) ==
    IF items = <<>> THEN value
    ELSE ListLoad(converter, Tail(items),
                  Append(value, LeafToValue(converter, Head(items))))

\* List.to_value without the check of the item type
List_to_value_unchecked(cls, obj, attrs) ==
    IF cls = "List" THEN Raise(attrs)
    ELSE Ok(ListV(ListLoad(item_type(cls, attrs), to_list(obj), <<>>)), attrs)

List_to_value(cls, obj, attrs) ==
    IF cls = "List" THEN Raise(attrs)
    ELSE IF item_type(cls, attrs) = "NoneType" THEN Raise(attrs)
         ELSE Ok(ListV(ListLoad(item_type(cls, attrs), to_list(obj), <<>>)),
                 attrs)

\* List.to_data, the loop over value
RECURSIVE ListDump(_, _, _)
ListDump(converter, value, data) ==
    IF value = <<>> THEN data
    ELSE ListDump(converter, Tail(value),
                  Append(data, LeafToData(converter, Head(value))))

\* List.to_data after `value = cls.to_value(obj)`
ListDumpValue(cls, v, attrs) ==
    IF v.err THEN Raise(attrs)
    ELSE Ok(ListV(ListDump(item_type(cls, attrs), v.val.l, <<>>)), attrs)

List_to_data(cls, obj, attrs) ==
    ListDumpValue(cls, List_to_value(cls, obj, attrs), attrs)

\* converter.to_value(data) for the converter of a field of a Dictionary:
\* a List subclass or a leaf converter
field_to_value(converter, data, attrs) ==
    IF converter \in ListClasses THEN List_to_value(converter, data, attrs)
    ELSE Ok(LeafToValue(converter, data), attrs)

\* converter.to_data(value) for the converter of a field of a Dictionary
field_to_data(converter, value, attrs) ==
    IF converter \in ListClasses THEN List_to_data(converter, value, attrs)
    ELSE Ok(LeafToData(converter, value), attrs)

\* Dictionary.to_value: the converter popped from the working copy of the
\* registry, or the one matched to the data of a new attribute
LoadConverter(copy, name, data) ==
    IF HasKey(copy, name) THEN DGet(copy, name, "Object") ELSE match(data)

\* a new attribute is matched but not put into the registry
Register_skipped(cls, attrs, copy, name, converter) == attrs

\* a new attribute appended to the registry, whatever the registry holds
Register_appended(cls, attrs, copy, name, converter) ==
    IF HasKey(copy, name) THEN attrs
    ELSE [attrs EXCEPT ![Owner(cls)] = Append(@, <<name, converter>>)]

\* Dictionary.to_value: `cls.yorm_attrs[name] = converter` for a new attribute
Register(cls, attrs, copy, name, converter) ==
    IF HasKey(copy, name) THEN attrs
    ELSE [attrs EXCEPT ![Owner(cls)] = DSet(@, name, converter)]

\* Dictionary.to_value, the loop over the items of to_dict(obj): the item
\* at the head, its converter, and the value converted from its data
RECURSIVE DictLoad(_, _, _, _, _)
RECURSIVE DictLoadItem(_, _, _, _, _, _, _)
RECURSIVE DictLoadNext(_, _, _, _, _, _, _)
DictLoad(cls, items, copy, value, attrs) ==
    IF items = <<>>
    THEN [val |-> value, copy |-> copy, attrs |-> attrs, err |-> FALSE]
    ELSE DictLoadItem(cls, items, copy, value, attrs, Head(items)[1],
                      LoadConverter(copy, Head(items)[1], Head(items)[2]))

\* the converter matched to the data at hand and assigned to the registry
\* for every item, declared or not
DictLoadItem_rematch(cls, items, copy, value, attrs, name, converter) ==
    DictLoadNext(cls, items, DPop(copy, name), value,
                 [attrs EXCEPT ![Owner(cls)] =
                     DSet(@, name, match(Head(items)[2]))], name,
                 field_to_value(match(Head(items)[2]), Head(items)[2], attrs))

DictLoadItem(cls, items, copy, value, attrs, name, converter) ==
    DictLoadNext(cls, items, DPop(copy, name), value,
                 Register(cls, attrs, copy, name, converter), name,
                 field_to_value(converter, Head(items)[2], attrs))

DictLoadNext(cls, items, copy, value, attrs, name, r) ==
    IF r.err
    THEN [val |-> value, copy |-> copy, attrs |-> attrs, err |-> TRUE]
    ELSE DictLoad(cls, Tail(items), copy, DSet(value, name, r.val), attrs)

\* the second loop left out: absent declared fields are not added
DictDeleted_skipped(copy, value, attrs) ==
    [val |-> value, err |-> FALSE]

\* Dictionary.to_value, the loop over the registry entries not consumed
RECURSIVE DictDeleted(_, _, _)
RECURSIVE DictDeletedNext(_, _, _, _)
DictDeleted(copy, value, attrs) ==
    IF copy = <<>>
    THEN [val |-> value, err |-> FALSE]
    ELSE DictDeletedNext(copy, value, attrs,
                         field_to_value(Head(copy)[2], None, attrs))

\* an absent field set to None, not to its converter's value for None
DictDeletedNext_null(copy, value, attrs, r) ==
    IF r.err
    THEN [val |-> value, err |-> TRUE]
    ELSE DictDeleted(Tail(copy), DSet(value, Head(copy)[1], None), attrs)

DictDeletedNext(copy, value, attrs, r) ==
    IF r.err
    THEN [val |-> value, err |-> TRUE]
    ELSE DictDeleted(Tail(copy), DSet(value, Head(copy)[1], r.val), attrs)

\* the dict returned by to_value or to_data, unless a converter raised
Finish(attrs, b) ==
    IF b.err THEN Raise(attrs) ELSE Ok(DictV(b.val), attrs)

\* Dictionary.to_value after its first loop
AddDeleted(a) ==
    IF a.err THEN Raise(a.attrs)
    ELSE Finish(a.attrs, DictDeleted(a.copy, a.val, a.attrs))

Dictionary_to_value(cls, obj, attrs) ==
    IF cls = "Dictionary" THEN Raise(attrs)
    ELSE AddDeleted(DictLoad(cls, to_dict(obj), Registry(attrs, cls), <<>>, attrs))

\* Dictionary.to_data, the loop over cls.yorm_attrs
RECURSIVE DictDump(_, _, _, _)
RECURSIVE DictDumpNext(_, _, _, _, _)
DictDump(entries, value, data, attrs) ==
    IF entries = <<>>
    THEN [val |-> data, err |-> FALSE]
    ELSE DictDumpNext(entries, value, data, attrs,
                      field_to_data(Head(entries)[2],
                                    DGet(value, Head(entries)[1], None), attrs))

DictDumpNext(entries, value, data, attrs, r) ==
    IF r.err
    THEN [val |-> data, err |-> TRUE]
    ELSE DictDump(Tail(entries), value, DSet(data, Head(entries)[1], r.val),
                  attrs)

\* the entries of the registry, in the order of the items of value
EntriesToDump_of_value(cls, v) ==
    [i \in 1..Len(v.val.d) |->
        <<v.val.d[i][1], DGet(Registry(v.attrs, cls), v.val.d[i][1], "Object")>>]

\* Dictionary.to_data: `cls.yorm_attrs.items()` when the loop starts
EntriesToDump(cls, v) == Registry(v.attrs, cls)

\* Dictionary.to_data after `value = cls.to_value(obj)`
DictDumpValue(cls, v) ==
    IF v.err THEN Raise(v.attrs)
    ELSE Finish(v.attrs, DictDump(EntriesToDump(cls, v), v.val.d, <<>>, v.attrs))

Dictionary_to_data(cls, obj, attrs) ==
    DictDumpValue(cls, Dictionary_to_value(cls, obj, attrs))

\* converter.to_value(obj), dispatched on the converter class
to_value(converter, obj, attrs) ==
    IF converter \in DictClasses THEN Dictionary_to_value(converter, obj, attrs)
    ELSE field_to_value(converter, obj, attrs)

\* converter.to_data(obj), dispatched on the converter class
to_data(converter, obj, attrs) ==
    IF converter \in DictClasses THEN Dictionary_to_data(converter, obj, attrs)
    ELSE field_to_data(converter, obj, attrs)

----------------------------------------------------------------------------
(* The mapped object, its mapper and the backing documents *)

count == <<"c", "o", "u", "n", "t">>

tags == <<"t", "a", "g", "s">>

note == <<"n", "o", "t", "e">>

hello == <<"h", "e", "l", "l", "o">>

yorm_mapper_name == <<"y", "o", "r", "m", "_", "m", "a", "p", "p", "e", "r">>

yorm_attrs_name == <<"y", "o", "r", "m", "_", "a", "t", "t", "r", "s">>

\* the ordinary attributes of the object
AttrNames == {count, tags, note}

\* the attributes read
ReadNames == {count, note, yorm_mapper_name, yorm_attrs_name}

\* the values written to attributes
WriteValues == {StrV(<<"7">>), StrV(<<"1", ",", "2">>)}

\* the documents found on disk or put there by an external writer
DocA == DictV(<< <<count, IntV(5)>>, <<note, StrV(hello)>> >>)

DocB == DictV(<< <<count, StrV(<<"7">>)>> >>)

Docs == {DocA, DocB}

Paths == {"sample.yml", "other.yml"}

\* the schemas an object is declared with
Schemas == { << <<count, "Integer">> >>,
             << <<count, "Integer">>, <<tags, "IntList">> >> }

\* the depth to which batching regions are nested
MaxDepth == 2

\* the number of declared-attribute writes inside one batching region
MaxWrites == 3

\* the number of operations performed on the object
MaxSteps == 5

\* the longest string given to to_list and to_dict on their own
MaxLen == 3

VARIABLES
    yorm_attrs,   \* the yorm_attrs registry of every class
    obj,          \* the attributes of the object
    mapper,       \* obj.yorm_mapper: bound, auto, path, and whether the
                  \* document changed since the last-known marker
    disk,         \* the documents, by path
    depth,        \* the number of batching regions entered and not exited
    region,       \* what happened in the batching region entered last
    op,           \* the operation performed last and what it did
    steps,        \* the number of operations performed
    call,         \* the converter call performed last and what it returned
    threads       \* the Dictionary.to_value calls in progress, by thread

vars == <<yorm_attrs, obj, mapper, disk, depth, region, op, steps, call, threads>>

NoDoc == [exists |-> FALSE, doc |-> None]

\* what an operation did: the store and retrieve calls it made, the document
\* reads and writes they performed, what it returned or raised, and, from
\* the state it was called in, the auto flag, whether the name was a declared
\* field and whether the document existed; prior is the number of reads of
\* the operation before it when both called retrieve, and -1 otherwise
OpRec(kind, name, value, stores, retrieves, reads, ret, err, auto, declared, existed) ==
    [kind |-> kind, name |-> name, value |-> value, stores |-> stores,
     retrieves |-> retrieves, reads |-> reads, writes |-> stores, ret |-> ret,
     err |-> err, auto |-> auto, declared |-> declared, existed |-> existed,
     prior |-> IF retrieves = 1 /\ op.retrieves = 1 THEN op.reads ELSE -1]

NoOp == OpRec("init", <<>>, None, 0, 0, 0, None, "", FALSE, FALSE, FALSE)

Unbound == [bound |-> FALSE, auto |-> FALSE, path |-> "", modified |-> FALSE]

NoRegion == [open |-> FALSE, clean |-> FALSE, stores |-> 0, writes |-> 0]

NoCall == [kind |-> "init", cls |-> "", raw |-> None, before |-> ContainerMeta,
           val |-> None, err |-> FALSE]

Threads == {1, 2}

\* a thread not in a call; in a call, pc is where the thread is in
\* Dictionary.to_value, raw, items, copy and value are its locals, and new
\* is the set of the names it logged as new attributes
IdleThread == [pc |-> "idle", raw |-> None, items |-> <<>>, copy |-> <<>>,
               value |-> <<>>, new |-> {}]

NoThreads == [t \in Threads |-> IdleThread]

\* the registry of the object's class
Schema(attrs) == attrs["Sample"]

\* the user's declaration of the list subclass IntList, items Integer
Declared == [ContainerMeta EXCEPT ![Owner("IntList")] = << <<ALL, "Integer">> >>]

----------------------------------------------------------------------------
(* Mapper: store and retrieve *)

\* the declared attributes of the object that are set, as a mapping
MappedValues(o, attrs) ==
    LET entries == SelectSeq(Schema(attrs), LAMBDA e : o[e[1]] # Absent)
    IN  DictV([i \in 1..Len(entries) |-> <<entries[i][1], o[entries[i][1]]>>])

\* Mapper.store(obj) after the conversion: the document is written and the
\* last-known marker is the one after the write
Written(m, dk, r) ==
    [attrs |-> r.attrs,
     disk |-> [dk EXCEPT ![m.path] = [exists |-> TRUE, doc |-> r.val]],
     mapper |-> [m EXCEPT !.modified = FALSE]]

\* Mapper.store(obj): dump the declared attributes and write the document
Mapper_store(o, m, attrs, dk) ==
    Written(m, dk, Dictionary_to_data("Sample", MappedValues(o, attrs), attrs))

\* the object after the assignment of the loaded fields
RECURSIVE Assign(_, _)
Assign(o, pairs) ==
    IF pairs = <<>> THEN o
    ELSE Assign([o EXCEPT ![Head(pairs)[1]] = Head(pairs)[2]], Tail(pairs))

----------------------------------------------------------------------------
(* Mappable: attribute interception and the batching region *)

\* the values of the attributes yorm_mapper and yorm_attrs
MapperRef == [t |-> "mapper", n |-> 0, s |-> <<>>, l |-> <<>>, d |-> <<>>]

AttrsRef == [t |-> "attrs", n |-> 0, s |-> <<>>, l |-> <<>>, d |-> <<>>]

\* __getattribute__ without the call of retrieve
GetAttrRetrieves_never(name, attrs) == FALSE

\* Mappable.__getattribute__: whether retrieve is called for the name
GetAttrRetrieves(name, attrs) ==
    /\ name \notin {yorm_mapper_name, yorm_attrs_name}
    /\ HasKey(Schema(attrs), name)

\* object.__getattribute__(self, name)
object_getattribute(o, name) ==
    IF name = yorm_mapper_name THEN MapperRef
    ELSE IF name = yorm_attrs_name THEN AttrsRef
         ELSE o[name]

\* Mappable.__setattr__: whether the value goes through the converter
SetAttrConverts(name, hasattrs, attrs) ==
    hasattrs /\ HasKey(Schema(attrs), name)

\* __setattr__ storing whatever the auto flag is
SetAttrStores_always(name, hasattrs, attrs, hasmapper, auto) ==
    hasattrs /\ HasKey(Schema(attrs), name) /\ hasmapper

\* Mappable.__setattr__: whether store is called after the assignment
SetAttrStores(name, hasattrs, attrs, hasmapper, auto) ==
    hasattrs /\ HasKey(Schema(attrs), name) /\ hasmapper /\ auto

\* __enter__ leaving the auto flag as it is
Mappable_enter_noop(m) == m

\* Mappable.__enter__: the mapper afterwards
Mappable_enter(m) == [m EXCEPT !.auto = FALSE]

\* Mappable.__exit__: the registries, documents and mapper afterwards
Mappable_exit(o, m, attrs, dk) == Mapper_store(o, m, attrs, dk)

\* retrieve assigning the loaded fields under the auto flag as it is
AssignAuto_kept(m) == m.auto

\* Mapper.retrieve: the auto flag in force while the loaded fields are
\* assigned; the assignments do not re-trigger a store
AssignAuto(m) == FALSE

\* the number of assignments of retrieve after which __setattr__ stores
AssignStores(pairs, attrs, auto) ==
    Len(SelectSeq(pairs, LAMBDA p : SetAttrStores(p[1], TRUE, attrs, TRUE, auto)))

\* Mapper.retrieve(obj) after a store triggered by its assignments
Restored(o, st, stores) ==
    [obj |-> o, attrs |-> st.attrs, mapper |-> st.mapper, disk |-> st.disk,
     reads |-> 1, stores |-> stores]

\* Mapper.retrieve(obj) after the assignment of the loaded fields
Assigned(o, m, attrs, dk, stores) ==
    IF stores = 0
    THEN [obj |-> o, attrs |-> attrs, mapper |-> m, disk |-> dk,
          reads |-> 1, stores |-> 0]
    ELSE Restored(o, Mapper_store(o, m, attrs, dk), stores)

\* retrieve leaving the last-known marker as it was
Loaded_unmarked(o, m, r, dk) ==
    Assigned(Assign(o, r.val.d), m, r.attrs, dk,
             AssignStores(r.val.d, r.attrs, AssignAuto(m)))

\* Mapper.retrieve(obj) after the conversion of the document read
Loaded(o, m, r, dk) ==
    Assigned(Assign(o, r.val.d), [m EXCEPT !.modified = FALSE], r.attrs, dk,
             AssignStores(r.val.d, r.attrs, AssignAuto(m)))

\* Mapper.retrieve(obj): load the document if it changed since the marker
Mapper_retrieve(o, m, attrs, dk) ==
    IF ~m.modified
    THEN [obj |-> o, attrs |-> attrs, mapper |-> m, disk |-> dk,
          reads |-> 0, stores |-> 0]
    ELSE Loaded(o, m, Dictionary_to_value("Sample", dk[m.path].doc, attrs), dk)

\* an operation other than an attribute access happened inside the region
Disturbed == [region EXCEPT !.clean = FALSE]

\* one more operation on the object
Tick ==
    /\ steps < MaxSteps
    /\ steps' = steps + 1

\* a read of an attribute of the mapped object
GetAttr(name) ==
    /\ Tick
    /\ mapper.bound
    /\ \E r \in { IF GetAttrRetrieves(name, yorm_attrs)
                  THEN Mapper_retrieve(obj, mapper, yorm_attrs, disk)
                  ELSE [obj |-> obj, attrs |-> yorm_attrs, mapper |-> mapper,
                        disk |-> disk, reads |-> 0, stores |-> 0] } :
         /\ obj' = r.obj
         /\ yorm_attrs' = r.attrs
         /\ mapper' = r.mapper
         /\ disk' = r.disk
         /\ op' = OpRec("getattr", name, None, r.stores,
                        IF GetAttrRetrieves(name, yorm_attrs) THEN 1 ELSE 0,
                        r.reads, object_getattribute(r.obj, name),
                        IF object_getattribute(r.obj, name) = Absent
                        THEN "AttributeError" ELSE "",
                        mapper.auto, HasKey(Schema(yorm_attrs), name), FALSE)
    /\ UNCHANGED <<depth, region, call, threads>>

\* __setattr__ after the assignment: store, or leave the document alone
AfterAssign(stores, o, m, attrs, dk) ==
    IF stores THEN Mapper_store(o, m, attrs, dk)
    ELSE [attrs |-> attrs, disk |-> dk, mapper |-> m]

SetAttr(name, value) ==
    /\ Tick
    /\ (region.open /\ SetAttrConverts(name, mapper.bound, yorm_attrs)) =>
           region.writes < MaxWrites
    /\ \E r \in { IF SetAttrConverts(name, mapper.bound, yorm_attrs)
                  THEN to_value(DGet(Schema(yorm_attrs), name, "Object"),
                                value, yorm_attrs)
                  ELSE Ok(value, yorm_attrs) } :
       \E stores \in { SetAttrStores(name, mapper.bound, r.attrs, mapper.bound,
                                     mapper.auto) } :
       \E st \in { AfterAssign(stores, [obj EXCEPT ![name] = r.val], mapper,
                               r.attrs, disk) } :
         /\ obj' = [obj EXCEPT ![name] = r.val]
         /\ yorm_attrs' = st.attrs
         /\ disk' = st.disk
         /\ mapper' = st.mapper
         /\ region' = IF region.open
                      THEN [region EXCEPT
                              !.stores = @ + (IF stores THEN 1 ELSE 0),
                              !.writes = @ + (IF SetAttrConverts(name,
                                  mapper.bound, yorm_attrs) THEN 1 ELSE 0)]
                      ELSE region
         /\ op' = OpRec("setattr", name, value, IF stores THEN 1 ELSE 0, 0, 0,
                        None, "", mapper.auto, HasKey(Schema(yorm_attrs), name),
                        FALSE)
    /\ UNCHANGED <<depth, call, threads>>

Enter ==
    /\ Tick
    /\ mapper.bound
    /\ depth < MaxDepth
    /\ mapper' = Mappable_enter(mapper)
    /\ depth' = depth + 1
    /\ region' = [open |-> TRUE, clean |-> TRUE, stores |-> 0, writes |-> 0]
    /\ op' = OpRec("enter", <<>>, None, 0, 0, 0, None, "", mapper.auto,
                   FALSE, FALSE)
    /\ UNCHANGED <<yorm_attrs, obj, disk, call, threads>>

\* the exception of the body of a `with` block, as passed to __exit__
BodyError == [t |-> "error", n |-> 0, s |-> <<>>, l |-> <<>>, d |-> <<>>]

\* Mappable.__exit__ returns None: an exception of the body is not
\* suppressed and propagates to the caller
Mappable_exit_suppresses == FALSE

\* the end of a `with obj:` block, whose body raised an exception or not
Exit(exc) ==
    /\ Tick
    /\ mapper.bound
    /\ depth > 0
    /\ \E st \in { Mappable_exit(obj, mapper, yorm_attrs, disk) } :
         /\ yorm_attrs' = st.attrs
         /\ disk' = st.disk
         /\ mapper' = st.mapper
    /\ depth' = depth - 1
    /\ region' = [region EXCEPT !.open = FALSE, !.stores = @ + 1,
                                !.clean = region.open /\ region.clean]
    /\ op' = OpRec("exit", <<>>, IF exc THEN BodyError ELSE None, 1, 0, 0, None,
                   IF exc /\ ~Mappable_exit_suppresses THEN "Error" ELSE "",
                   mapper.auto, FALSE, FALSE)
    /\ UNCHANGED <<obj, call, threads>>

----------------------------------------------------------------------------
(* The mapper's interface: bind, store, retrieve, set_auto *)

\* bind without the check for an existing mapper
AlreadyMapped_never(m) == FALSE

\* bind: the object already has a mapper
AlreadyMapped(m) == m.bound

\* bind always storing, whether or not a document exists
BindRetrieves_never(dk, path) == FALSE

\* bind: the initial synchronization reads the document rather than writes it
BindRetrieves(dk, path) == dk[path].exists

\* bind: the mapper created for the object
NewMapper(path) ==
    [bound |-> TRUE, auto |-> TRUE, path |-> path, modified |-> TRUE]

\* bind on an unbound object, given the schema: retrieve or store
BindSync(path, attrs) ==
    IF BindRetrieves(disk, path)
    THEN \E r \in { Mapper_retrieve(obj, NewMapper(path), attrs, disk) } :
           /\ obj' = r.obj
           /\ yorm_attrs' = r.attrs
           /\ mapper' = r.mapper
           /\ disk' = r.disk
           /\ op' = OpRec("bind", <<>>, None, r.stores, 1, r.reads, None, "",
                          FALSE, FALSE, TRUE)
    ELSE \E st \in { Mapper_store(obj, NewMapper(path), attrs, disk) } :
           /\ obj' = obj
           /\ yorm_attrs' = st.attrs
           /\ mapper' = st.mapper
           /\ disk' = st.disk
           /\ op' = OpRec("bind", <<>>, None, 1, 0, 0, None, "",
                          FALSE, FALSE, FALSE)

Bind(path, schema) ==
    /\ Tick
    /\ IF AlreadyMapped(mapper)
       THEN /\ op' = OpRec("bind", <<>>, None, 0, 0, 0, None, "MappingError",
                           mapper.auto, FALSE, disk[path].exists)
            /\ UNCHANGED <<yorm_attrs, obj, mapper, disk>>
       ELSE BindSync(path, [yorm_attrs EXCEPT !["Sample"] = schema])
    /\ region' = Disturbed
    /\ UNCHANGED <<depth, call, threads>>

Store ==
    /\ Tick
    /\ mapper.bound
    /\ \E st \in { Mapper_store(obj, mapper, yorm_attrs, disk) } :
         /\ yorm_attrs' = st.attrs
         /\ disk' = st.disk
         /\ mapper' = st.mapper
    /\ region' = [Disturbed EXCEPT !.stores = @ + (IF region.open THEN 1 ELSE 0)]
    /\ op' = OpRec("store", <<>>, None, 1, 0, 0, None, "", mapper.auto,
                   FALSE, TRUE)
    /\ UNCHANGED <<obj, depth, call, threads>>

Retrieve ==
    /\ Tick
    /\ mapper.bound
    /\ \E r \in { Mapper_retrieve(obj, mapper, yorm_attrs, disk) } :
         /\ obj' = r.obj
         /\ yorm_attrs' = r.attrs
         /\ mapper' = r.mapper
         /\ disk' = r.disk
         /\ op' = OpRec("retrieve", <<>>, None, r.stores, 1, r.reads, None, "",
                        mapper.auto, FALSE, TRUE)
    /\ region' = Disturbed
    /\ UNCHANGED <<depth, call, threads>>

SetAuto(enabled) ==
    /\ Tick
    /\ mapper.bound
    /\ mapper' = [mapper EXCEPT !.auto = enabled]
    /\ region' = Disturbed
    /\ op' = OpRec("set_auto", <<>>, None, 0, 0, 0, None, "", mapper.auto,
                   FALSE, FALSE)
    /\ UNCHANGED <<yorm_attrs, obj, disk, depth, call, threads>>

\* another writer replaces the document the object is mapped to
ExternalEdit(doc) ==
    /\ Tick
    /\ mapper.bound
    /\ disk[mapper.path].doc # doc
    /\ disk' = [disk EXCEPT ![mapper.path] = [exists |-> TRUE, doc |-> doc]]
    /\ mapper' = [mapper EXCEPT !.modified = TRUE]
    /\ op' = OpRec("edit", <<>>, None, 0, 0, 0, None, "", mapper.auto,
                   FALSE, TRUE)
    /\ UNCHANGED <<yorm_attrs, obj, depth, region, call, threads>>

Init ==
    /\ yorm_attrs = Declared
    /\ obj = [name \in AttrNames |-> Absent]
    /\ mapper = Unbound
    /\ disk \in {[path \in Paths |-> IF path = "sample.yml" THEN d ELSE NoDoc] :
                   d \in {NoDoc} \cup {[exists |-> TRUE, doc |-> doc] : doc \in Docs}}
    /\ depth = 0
    /\ region = NoRegion
    /\ op = NoOp
    /\ steps = 0
    /\ call = NoCall
    /\ threads = NoThreads

Next ==
    \/ \E name \in ReadNames : GetAttr(name)
    \/ \E name \in AttrNames, value \in WriteValues : SetAttr(name, value)
    \/ Enter
    \/ \E exc \in BOOLEAN : Exit(exc)
    \/ \E path \in Paths, schema \in Schemas : Bind(path, schema)
    \/ Store
    \/ Retrieve
    \/ \E enabled \in BOOLEAN : SetAuto(enabled)
    \/ \E doc \in Docs : ExternalEdit(doc)

Spec == Init /\ [][Next]_vars

TypeOK ==
    /\ depth \in 0..MaxDepth
    /\ region.writes \in 0..MaxWrites
    /\ mapper.bound \in BOOLEAN

----------------------------------------------------------------------------
(* Calls of the container converters on their own *)

key == <<"k", "e", "y">>

\* the raw inputs of the Dictionary subclasses
DictRaws ==
    { None, IntV(42), DictV(<<>>), DocA, DocB,
      DictV(<< <<note, IntV(3)>>, <<count, IntV(5)>> >>),
      StrV(<<"k", "e", "y", "=", "4", "2">>), StrV(key) }

\* the raw inputs of the List subclasses
ListRaws ==
    { None, IntV(42), ListV(<<>>), ListV(<<IntV(1), StrV(<<"2">>)>>),
      StrV(<<"1", ",", "2">>), StrV(<<"1", " ", "2">>), DocB }

\* the raw inputs a class is called with
Raws(cls) ==
    IF cls = "D1" THEN DictRaws
    ELSE IF cls \in DictClasses THEN {None, DocB}
         ELSE IF cls = "IntList" THEN ListRaws
              ELSE {None, StrV(<<"1", ",", "2">>)}

\* the registries the subclasses are declared with
Declarations ==
    { [Declared EXCEPT ![Owner("D1")] = schema] :
        schema \in Schemas \cup { <<>>, << <<tags, "IntList">>, <<note, "Integer">> >> } }

ToValueCall(cls, raw) ==
    /\ \E r \in { to_value(cls, raw, yorm_attrs) } :
         /\ yorm_attrs' = r.attrs
         /\ call' = [kind |-> "to_value", cls |-> cls, raw |-> raw,
                     before |-> yorm_attrs, val |-> r.val, err |-> r.err]
    /\ UNCHANGED <<obj, mapper, disk, depth, region, op, steps, threads>>

ToDataCall(cls, raw) ==
    /\ \E r \in { to_data(cls, raw, yorm_attrs) } :
         /\ yorm_attrs' = r.attrs
         /\ call' = [kind |-> "to_data", cls |-> cls, raw |-> raw,
                     before |-> yorm_attrs, val |-> r.val, err |-> r.err]
    /\ UNCHANGED <<obj, mapper, disk, depth, region, op, steps, threads>>

InitConv ==
    /\ yorm_attrs \in Declarations
    /\ obj = [name \in AttrNames |-> Absent]
    /\ mapper = Unbound
    /\ disk = [path \in Paths |-> NoDoc]
    /\ depth = 0
    /\ region = NoRegion
    /\ op = NoOp
    /\ steps = 0
    /\ call = NoCall
    /\ threads = NoThreads

NextConv ==
    \/ \E cls \in DictClasses \cup ListClasses : \E raw \in Raws(cls) : ToValueCall(cls, raw)
    \/ \E cls \in DictClasses \cup ListClasses : \E raw \in Raws(cls) : ToDataCall(cls, raw)

SpecConv == InitConv /\ [][NextConv]_vars

----------------------------------------------------------------------------
(* Two threads in Dictionary.to_value of one subclass.  A step of a thread  *)
(* holds at most one access to the registry of the class, which the        *)
(* threads share; the locals of a call are the thread's own.               *)

\* the class both threads call
ParClass == "D1"

\* the raw inputs of the two calls
ParRaws ==
    { DocA, DocB, DictV(<< <<note, StrV(<<"7">>)>> >>),
      DictV(<< <<note, IntV(3)>>, <<count, IntV(5)>> >>),
      StrV(<<"k", "e", "y", "=", "4", "2">>), StrV(<<"k", "e", "y", "=", "7">>) }

\* `yorm_attrs = cls.yorm_attrs.copy()` and the call of to_dict(obj)
CopyRegistry(t) ==
    /\ threads[t].pc = "start"
    /\ threads' = [threads EXCEPT ![t].pc = "loop",
                                  ![t].copy = Registry(yorm_attrs, ParClass),
                                  ![t].items = to_dict(threads[t].raw)]
    /\ UNCHANGED <<yorm_attrs, obj, mapper, disk, depth, region, op, steps, call>>

\* one iteration of the loop over the items: pop, or match and register,
\* then convert
LoadItem(t) ==
    /\ threads[t].pc = "loop"
    /\ threads[t].items # <<>>
    /\ \E th \in {threads[t]} :
       \E name \in {Head(th.items)[1]} :
       \E converter \in {LoadConverter(th.copy, name, Head(th.items)[2])} :
       \E r \in {field_to_value(converter, Head(th.items)[2], yorm_attrs)} :
         /\ yorm_attrs' = Register(ParClass, yorm_attrs, th.copy, name, converter)
         /\ threads' = [threads EXCEPT
                          ![t].pc = IF r.err THEN "raised" ELSE "loop",
                          ![t].items = Tail(th.items),
                          ![t].copy = DPop(th.copy, name),
                          ![t].new = IF HasKey(th.copy, name) THEN th.new
                                     ELSE th.new \cup {name},
                          ![t].value = IF r.err THEN th.value
                                       ELSE DSet(th.value, name, r.val)]
    /\ UNCHANGED <<obj, mapper, disk, depth, region, op, steps, call>>

\* the loop over the entries left in the working copy, and the return
ReturnValue(t) ==
    /\ threads[t].pc = "loop"
    /\ threads[t].items = <<>>
    /\ \E b \in {DictDeleted(threads[t].copy, threads[t].value, yorm_attrs)} :
         threads' = [threads EXCEPT
                       ![t].pc = IF b.err THEN "raised" ELSE "done",
                       ![t].value = b.val]
    /\ UNCHANGED <<yorm_attrs, obj, mapper, disk, depth, region, op, steps, call>>

InitPar ==
    /\ yorm_attrs \in Declarations
    /\ obj = [name \in AttrNames |-> Absent]
    /\ mapper = Unbound
    /\ disk = [path \in Paths |-> NoDoc]
    /\ depth = 0
    /\ region = NoRegion
    /\ op = NoOp
    /\ steps = 0
    /\ call = [NoCall EXCEPT !.before = yorm_attrs]
    /\ threads \in [Threads -> {[IdleThread EXCEPT !.pc = "start", !.raw = raw] :
                                  raw \in ParRaws}]

NextPar ==
    \/ \E t \in Threads : CopyRegistry(t)
    \/ \E t \in Threads : LoadItem(t)
    \/ \E t \in Threads : ReturnValue(t)

SpecPar == InitPar /\ [][NextPar]_vars

----------------------------------------------------------------------------
(* Calls of the static methods List.to_list and Dictionary.to_dict *)

\* the characters of the strings: a letter, the two separators, a space
\* and a tab
Alphabet == {"a", ",", "=", " ", "\t"}

Strings == UNION { [1..n -> Alphabet] : n \in 0..MaxLen }

\* the examples of the docstring of to_dict and of the tests of to_list
Examples ==
    { StrV(<<"k", "e", "y", "=", "4", "2">>), StrV(key),
      StrV(<<"a", ",", "b", ",", "c">>), StrV(<<"a", " ", "b", " ", "c">>) }

\* the objects to_list and to_dict are called with
CoerceRaws ==
    { None, IntV(42), ListV(<<>>), ListV(<<IntV(1), StrV(<<"2">>)>>),
      DictV(<<>>), DocA, DocB }
      \cup Examples \cup { StrV(cs) : cs \in Strings }

ToListCall(raw) ==
    /\ call' = [kind |-> "to_list", cls |-> "List", raw |-> raw,
                before |-> yorm_attrs, val |-> ListV(to_list(raw)),
                err |-> FALSE]
    /\ UNCHANGED <<yorm_attrs, obj, mapper, disk, depth, region, op, steps, threads>>

ToDictCall(raw) ==
    /\ call' = [kind |-> "to_dict", cls |-> "Dictionary", raw |-> raw,
                before |-> yorm_attrs, val |-> DictV(to_dict(raw)),
                err |-> FALSE]
    /\ UNCHANGED <<yorm_attrs, obj, mapper, disk, depth, region, op, steps, threads>>

NextCoerce ==
    \/ \E raw \in CoerceRaws : ToListCall(raw)
    \/ \E raw \in CoerceRaws : ToDictCall(raw)

\* the static methods read no registry: the classes are as declared
InitCoerce == InitConv /\ yorm_attrs = Declared

SpecCoerce == InitCoerce /\ [][NextCoerce]_vars

----------------------------------------------------------------------------
(* Properties of the Dictionary and List converters *)

\* the declared subclasses of Dictionary and of List with an item type
DictSubclasses == DictClasses \ {"Dictionary"}

ListSubclasses == {"IntList"}

\* C7: schema superset invariant.  After to_value(r) of a Dictionary
\* subclass on a raw mapping r, the keys of the result are the keys of r
\* together with the keys of the registry as it is after the call; the same
\* holds of any raw input for the keys of the mapping it is coerced to.
C7_SchemaSuperset ==
    (call.kind = "to_value" /\ call.cls \in DictSubclasses /\ ~call.err) =>
        /\ call.val.t = "dict"
        /\ call.raw.t = "dict" =>
             Keys(call.val.d) = Keys(call.raw.d) \cup Keys(yorm_attrs[call.cls])
        /\ Keys(call.val.d) =
             Keys(to_dict(call.raw)) \cup Keys(yorm_attrs[call.cls])

\* a to_value call on a raw mapping that both discovers a new field and
\* lacks a declared one
C7_Witness ==
    /\ call.kind = "to_value" /\ call.cls = "D1" /\ ~call.err
    /\ call.raw.t = "dict"
    /\ Keys(call.raw.d) \ Keys(call.before["D1"]) # {}
    /\ Keys(call.before["D1"]) \ Keys(call.raw.d) # {}
    /\ Keys(yorm_attrs["D1"]) # Keys(call.before["D1"])

\* C8: emission shape invariant.  After to_data(r) of a Dictionary subclass
\* on a raw mapping r, the keys of the result are exactly the keys of the
\* registry as it is after the call, in the order of the registry.
C8_EmissionShape ==
    (call.kind = "to_data" /\ call.cls \in DictSubclasses /\ ~call.err) =>
        /\ call.val.t = "dict"
        /\ KeySeq(call.val.d) = KeySeq(yorm_attrs[call.cls])

\* a to_data call on a raw mapping that discovers a new field and whose keys
\* are not in the order of the registry
C8_Witness ==
    /\ call.kind = "to_data" /\ call.cls = "D1" /\ ~call.err
    /\ call.raw.t = "dict"
    /\ Keys(call.raw.d) \ Keys(call.before["D1"]) # {}
    /\ Len(call.val.d) >= 2
    /\ KeySeq(call.raw.d) # KeySeq(call.val.d)

\* C9: idempotence of emission.  For a declared Dictionary or List subclass,
\* a registry state and a raw input r, to_data(to_value(r)) equals
\* to_data(r), both started from the registry state the call was made in.
C9_Idempotence ==
    (call.kind = "to_data" /\ ~call.err
        /\ call.cls \in DictSubclasses \cup ListSubclasses) =>
        LET v == to_value(call.cls, call.raw, call.before)
            d == to_data(call.cls, v.val, v.attrs)
        IN  /\ ~v.err
            /\ ~d.err
            /\ d.val = call.val

\* a to_data call whose raw input is not yet in canonical form
C9_Witness ==
    /\ call.kind = "to_data" /\ ~call.err
    /\ call.cls \in DictSubclasses \cup ListSubclasses
    /\ call.raw.t = "str"
    /\ call.val \in {ListV(<<IntV(1), IntV(2)>>),
                     DictV(<< <<key, StrV(<<"4", "2">>)>> >>)}

----------------------------------------------------------------------------
(* Properties of the mapped object *)

\* the converter of a declared field
ConverterOf(attrs, name) == DGet(Schema(attrs), name, "Object")

\* the document at the mapper's path
Document == disk[mapper.path].doc

\* C1: batching.  While a batching region is open and only attribute reads
\* and writes have happened in it, no store has been performed; when it is
\* exited, exactly one store has been performed since it was entered,
\* whatever the number of declared-attribute writes in it.
C1_Batching ==
    /\ (region.open /\ region.clean) => region.stores = 0
    /\ (op.kind = "exit" /\ region.clean) =>
           /\ region.stores = 1
           /\ op.stores = 1
           /\ Document = Dictionary_to_data("Sample", MappedValues(obj, yorm_attrs),
                                 yorm_attrs).val

\* a region exited after two or more declared-attribute writes
C1_Witness ==
    /\ op.kind = "exit" /\ region.clean
    /\ region.writes >= 2
    /\ region.stores = 1

\* C2: after the exit from a batching region the auto flag is true.
C2_AutoRestored ==
    op.kind = "exit" => mapper.auto

\* C3: attribute write.  A write to a declared field leaves the converted
\* value in the object and calls store once, after the assignment, if and
\* only if auto was enabled; a write to any other name leaves the value
\* unmodified and calls no store.
C3_AttributeWrite ==
    (op.kind = "setattr" /\ mapper.bound) =>
        IF op.declared
        THEN LET converter == ConverterOf(yorm_attrs, op.name)
             IN  /\ obj[op.name] = to_value(converter, op.value, yorm_attrs).val
                 /\ op.stores = (IF op.auto THEN 1 ELSE 0)
                 /\ op.stores = 1 =>
                      /\ ~mapper.modified
                      /\ DGet(Document.d, op.name, Absent) =
                           to_data(converter, obj[op.name], yorm_attrs).val
        ELSE /\ obj[op.name] = op.value
             /\ op.stores = 0

\* a write to a declared field that was converted and stored
C3_Witness ==
    /\ op.kind = "setattr" /\ mapper.bound /\ op.declared /\ op.auto
    /\ op.stores = 1
    /\ obj[op.name] # op.value

\* C4: attribute read.  A read of a declared field calls retrieve first and
\* returns the value in place after it; a read of any other name, the
\* mapper and the schema attributes included, calls no retrieve and returns
\* the stored value.
C4_AttributeRead ==
    op.kind = "getattr" =>
        IF op.declared /\ op.name \notin {yorm_mapper_name, yorm_attrs_name}
        THEN /\ op.retrieves = 1
             /\ op.ret = obj[op.name]
             /\ ~mapper.modified
             /\ (op.reads = 1 /\ HasKey(Document.d, op.name)) =>
                  op.ret = to_value(ConverterOf(yorm_attrs, op.name),
                                    DGet(Document.d, op.name, None),
                                    yorm_attrs).val
        ELSE /\ op.retrieves = 0
             /\ op.reads = 0
             /\ op.ret = object_getattribute(obj, op.name)

\* a read of a declared field that returned a value loaded by its retrieve
C4_Witness ==
    /\ op.kind = "getattr" /\ op.declared
    /\ op.reads = 1
    /\ HasKey(Document.d, op.name)
    /\ op.ret # Absent

\* C5: single association.  A bind on an object that already has a mapper
\* fails with MappingError and leaves the mapper, the schema, the object and
\* the documents as they were.
C5_SingleAssociation ==
    [][(op'.kind = "bind" /\ mapper.bound) =>
           /\ op'.err = "MappingError"
           /\ mapper' = mapper
           /\ yorm_attrs' = yorm_attrs
           /\ obj' = obj
           /\ disk' = disk]_vars

\* a second bind, which failed
C5_Witness ==
    /\ op.kind = "bind" /\ op.err = "MappingError"
    /\ mapper.bound

\* C6: bind on an unbound object.  If a document exists at the location,
\* one retrieve is performed, the attributes reflect the fields of the
\* document and nothing is written; if none exists, one store is performed
\* and the document then exists with the object's values.
C6_BindSynchronizes ==
    [][(op'.kind = "bind" /\ ~mapper.bound) =>
           /\ op'.err = ""
           /\ mapper'.bound
           /\ IF disk[mapper'.path].exists
              THEN LET doc == disk[mapper'.path].doc.d
                   IN  /\ op'.retrieves = 1 /\ op'.reads = 1
                       /\ op'.stores = 0 /\ op'.writes = 0
                       /\ disk' = disk
                       /\ \A name \in Keys(doc) :
                            obj'[name] =
                              to_value(ConverterOf(yorm_attrs', name),
                                       DGet(doc, name, None), yorm_attrs').val
              ELSE /\ op'.stores = 1 /\ op'.retrieves = 0 /\ op'.reads = 0
                   /\ obj' = obj
                   /\ disk'[mapper'.path].exists
                   /\ disk'[mapper'.path].doc =
                        Dictionary_to_data("Sample", MappedValues(obj, yorm_attrs'),
                                yorm_attrs').val]_vars

\* a bind that found a document and loaded a field from it
C6_Witness ==
    /\ op.kind = "bind" /\ op.err = "" /\ op.existed
    /\ op.retrieves = 1
    /\ obj[count] = IntV(5)

\* C10: undeclared fields are preserved.  After a bind to an existing
\* document with a field the schema does not declare, the declared
\* attributes hold the document's values and the registry has the new field
\* with the inferred converter; a store that follows emits every field of
\* the document, the discovered one included, with the document's values.
C10_UndeclaredPreserved ==
    /\ [](op.kind = "bind" /\ op.err = "" /\ op.existed =>
            /\ \A name \in Keys(Document.d) :
                 /\ HasKey(Schema(yorm_attrs), name)
                 /\ obj[name] = to_value(ConverterOf(yorm_attrs, name),
                                         DGet(Document.d, name, None),
                                         yorm_attrs).val
            /\ Document = DocA =>
                 /\ obj[count] = IntV(5)
                 /\ ConverterOf(yorm_attrs, note) = "String"
                 /\ obj[note] = StrV(hello))
    /\ [][(op.kind = "bind" /\ op.err = "" /\ op.existed /\ op'.kind = "store") =>
            /\ \A name \in Keys(Document.d) :
                 DGet(Document'.d, name, Absent) =
                   to_data(ConverterOf(yorm_attrs, name),
                           DGet(Document.d, name, None), yorm_attrs).val
            /\ Document = DocA =>
                 /\ DGet(Document'.d, count, Absent) = IntV(5)
                 /\ DGet(Document'.d, note, Absent) = StrV(hello)]_vars

\* a store right after a bind that discovered the field `note`
C10_Witness ==
    /\ op.kind = "store"
    /\ HasKey(Schema(yorm_attrs), note)
    /\ Document \in { DictV(<< <<count, IntV(5)>>, <<note, StrV(hello)>> >>),
                      DictV(<< <<count, IntV(5)>>, <<tags, ListV(<<>>)>>,
                               <<note, StrV(hello)>> >>) }
    /\ steps = 2

\* C11: staleness skip.  When two operations in succession call retrieve on
\* a bound object, with no change of the document in between, the document
\* is read at most once: the second retrieve reads nothing and leaves the
\* object, the mapper with its last-known marker, and the documents as
\* they were.
C11_StalenessSkip ==
    [][(op.retrieves = 1 /\ op'.retrieves = 1) =>
           /\ op.reads + op'.reads <= 1
           /\ op'.reads = 0
           /\ obj' = obj
           /\ mapper' = mapper
           /\ disk' = disk]_vars

\* a retrieve that read nothing, right after a retrieve that read the document
C11_Witness ==
    /\ op.kind = "retrieve"
    /\ op.prior = 1
    /\ op.reads = 0
    /\ ~mapper.modified

\* C12: retrieve never writes.  A retrieve that finds the document changed
\* assigns the loaded fields onto the object, performs no store and leaves
\* every document as it was, also when auto is enabled and the fields
\* assigned are declared.
C12_RetrieveNeverWrites ==
    [][(op'.retrieves = 1 /\ op'.reads = 1) =>
           /\ op'.stores = 0
           /\ op'.writes = 0
           /\ disk' = disk
           /\ \A name \in Keys(disk[mapper'.path].doc.d) :
                obj'[name] =
                  to_value(ConverterOf(yorm_attrs', name),
                           DGet(disk[mapper'.path].doc.d, name, None),
                           yorm_attrs').val]_vars

\* a retrieve with auto enabled that loaded a declared field from a changed
\* document, the document still as the other writer left it
C12_Witness ==
    /\ op.kind = "retrieve" /\ op.reads = 1
    /\ op.auto /\ mapper.auto
    /\ SetAttrStores(count, TRUE, yorm_attrs, TRUE, mapper.auto)
    /\ Document = DocB
    /\ obj[count] = IntV(7)

\* the container classes, and those the user declared nothing in
ContainerClasses == DictClasses \cup ListClasses

Undeclared == {"D2", "D1a", "BareList"}

\* C13: registry independence.  Every container subclass, a subclass of a
\* subclass and the siblings under one base included, starts with an empty
\* registry of its own, and a to_value or to_data call of one class leaves
\* the registry of every other class as it was.
C13_RegistryIndependence ==
    /\ [](call.kind = "init" =>
            \A cls \in Undeclared : Registry(yorm_attrs, cls) = <<>>)
    /\ [][\A cls \in ContainerClasses \ {call'.cls} :
            Registry(yorm_attrs', cls) = Registry(yorm_attrs, cls)]_vars

\* a call of D1a that grew its registry, the registry of its base D1 holding
\* other fields and that of D2 none
C13_Witness ==
    /\ call.cls = "D1a" /\ ~call.err
    /\ Registry(yorm_attrs, "D1a") # call.before["D1a"]
    /\ HasKey(Registry(yorm_attrs, "D1"), tags)
    /\ ~HasKey(Registry(yorm_attrs, "D1a"), tags)
    /\ Registry(yorm_attrs, "D2") = <<>>

\* the fields of a raw input that a registry lacks, each with the converter
\* inferred from its datum
NewFields(raw, registry) ==
    { <<to_dict(raw)[i][1], match(to_dict(raw)[i][2])>> :
        i \in { j \in 1..Len(to_dict(raw)) : ~HasKey(registry, to_dict(raw)[j][1]) } }

\* the names of a set of fields
Names(fields) == {f[1] : f \in fields}

\* the fields both raw inputs bring that the registry lacked at the start,
\* with the same inferred converter
Shared ==
    NewFields(threads[1].raw, call.before[ParClass])
      \cap NewFields(threads[2].raw, call.before[ParClass])

\* the registry has one entry per field, and the declared entries are as
\* they were at the start
RegistryIntact ==
    LET decl == call.before[ParClass]
        reg == Registry(yorm_attrs, ParClass)
    IN  /\ \A i, j \in 1..Len(reg) : reg[i][1] = reg[j][1] => i = j
        /\ Len(reg) >= Len(decl)
        /\ SubSeq(reg, 1, Len(decl)) = decl

\* C14 as stated: concurrent schema growth.  For every interleaving of two
\* to_value calls of one Dictionary subclass whose raw inputs both bring
\* the same undeclared field with the same inferred converter: once both
\* have returned, the registry has exactly one entry for the field, with
\* that converter, and the declared entries are intact; and each call, when
\* it returns, returns a result whose keys are a superset of the keys of
\* its raw input and of the registry as it then is.
C14_AsStated ==
    [][Shared # {} =>
         /\ (\A t \in Threads : threads'[t].pc = "done") =>
              /\ RegistryIntact'
              /\ \A f \in Shared :
                   DGet(Registry(yorm_attrs', ParClass), f[1], "NoneType") = f[2]
         /\ \A t \in Threads :
              (threads[t].pc # "done" /\ threads'[t].pc = "done") =>
                 Keys(to_dict(threads[t].raw))
                   \cup Keys(Registry(yorm_attrs', ParClass))
                     \subseteq Keys(threads'[t].value)]_vars

\* C14: concurrent schema growth, amended.  For every interleaving of two
\* to_value calls of one Dictionary subclass whose raw inputs both bring
\* the same undeclared field with the same inferred converter: at every
\* moment the registry has one entry per field and the declared entries as
\* they were, and neither call raises; when both have returned, the
\* registry holds the declared fields and the new fields of both inputs,
\* the shared field with that converter, and each result holds the keys of
\* its raw input, the declared fields and the shared field, and no key the
\* registry lacks; it holds every key of the registry when the two inputs
\* bring the same undeclared fields.
C14_ConcurrentGrowth ==
    LET decl == call.before[ParClass]
        reg == Registry(yorm_attrs, ParClass)
        new1 == NewFields(threads[1].raw, decl)
        new2 == NewFields(threads[2].raw, decl)
    IN  (threads[1].pc # "idle" /\ Shared # {}) =>
          /\ RegistryIntact
          /\ \A t \in Threads : threads[t].pc # "raised"
          /\ (\A t \in Threads : threads[t].pc = "done") =>
               /\ Keys(reg) = Keys(decl) \cup Names(new1 \cup new2)
               /\ \A f \in Shared : DGet(reg, f[1], "NoneType") = f[2]
               /\ \A t \in Threads :
                    /\ Keys(to_dict(threads[t].raw)) \cup Keys(decl)
                         \cup Names(Shared) \subseteq Keys(threads[t].value)
                    /\ Keys(threads[t].value) \subseteq Keys(reg)
                    /\ new1 = new2 =>
                         Keys(threads[t].value) =
                           Keys(to_dict(threads[t].raw)) \cup Keys(reg)

\* both calls have returned, each having registered the field `note`, which
\* the registry holds once, after the declared field
C14_Witness ==
    /\ \A t \in Threads : threads[t].pc = "done" /\ note \in threads[t].new
    /\ threads[1].raw # threads[2].raw
    /\ Registry(yorm_attrs, ParClass) =
         << <<count, "Integer">>, <<note, "String">> >>
    /\ call.before[ParClass] = << <<count, "Integer">> >>

\* C15: batching region on error exit.  When the body of a batching region
\* ends with an error, the exit performs one store of the object's current
\* values, auto is enabled afterwards, and the error propagates.
C15_ErrorExit ==
    (op.kind = "exit" /\ op.value = BodyError) =>
        /\ op.stores = 1
        /\ Document = Dictionary_to_data("Sample", MappedValues(obj, yorm_attrs),
                                         yorm_attrs).val
        /\ op.err = "Error"
        /\ mapper.auto

----------------------------------------------------------------------------
(* Properties of List.to_list and Dictionary.to_dict *)

HasWhitespace(cs) == \E i \in 1..Len(cs) : IsSpace(cs[i])

\* the strings of a list of texts
Strs(parts) == [i \in 1..Len(parts) |-> StrV(parts[i])]

\* C16 as stated: list coercion.  A native sequence is returned as it is;
\* a string with a comma and no whitespace character is split on commas;
\* every other string, one with a comma and whitespace anywhere included,
\* is split on whitespace; null becomes the empty sequence; any other
\* scalar x becomes [x].
C16_AsStated ==
    call.kind = "to_list" =>
        call.val.l =
          (IF call.raw.t = "list" THEN call.raw.l
           ELSE IF call.raw.t = "str"
                THEN IF Contains(call.raw.s, ",") /\ ~HasWhitespace(call.raw.s)
                     THEN Strs(Split(call.raw.s, ","))
                     ELSE Strs(SplitWhitespace(call.raw.s))
                ELSE IF call.raw = None THEN <<>> ELSE <<call.raw>>)

\* C16: list coercion, amended.  A native sequence is returned as it is; a
\* string is stripped of leading and trailing whitespace, and the stripped
\* text is split on commas if it has a comma and no space character (a tab
\* does not count), and on whitespace otherwise; null becomes the empty
\* sequence; any other scalar x becomes [x].
C16_ListCoercion ==
    call.kind = "to_list" =>
        /\ call.val.l =
             (IF call.raw.t = "list" THEN call.raw.l
              ELSE IF call.raw.t = "str"
                   THEN IF Contains(Strip(call.raw.s), ",")
                           /\ ~Contains(Strip(call.raw.s), " ")
                        THEN Strs(Split(Strip(call.raw.s), ","))
                        ELSE Strs(SplitWhitespace(call.raw.s))
                   ELSE IF call.raw = None THEN <<>> ELSE <<call.raw>>)
        /\ call.raw = StrV(<<"a", ",", "b", ",", "c">>) =>
             call.val.l = <<StrV(<<"a">>), StrV(<<"b">>), StrV(<<"c">>)>>
        /\ call.raw = StrV(<<"a", " ", "b", " ", "c">>) =>
             call.val.l = <<StrV(<<"a">>), StrV(<<"b">>), StrV(<<"c">>)>>
        /\ call.raw = IntV(42) => call.val.l = <<IntV(42)>>
        /\ (call.raw.t = "str" /\ Contains(Strip(call.raw.s), " ")) =>
             \A i \in 1..Len(call.val.l) :
                call.val.l[i].s # <<>> /\ ~HasWhitespace(call.val.l[i].s)

\* a string with a comma and a tab inside, split on commas
C16_Witness ==
    /\ call.kind = "to_list"
    /\ call.raw = StrV(<<"a", "\t", ",">>)
    /\ call.val.l = <<StrV(<<"a", "\t">>), StrV(<<>>)>>

\* the places of the character c in a text
Places(cs, c) == {i \in 1..Len(cs) : cs[i] = c}

\* C17 as stated: dictionary coercion.  A native mapping is returned as it
\* is; a string key=value becomes {key: value}, the value a string; a bare
\* string s becomes {s: null}; null becomes {}.
C17_AsStated ==
    call.kind = "to_dict" =>
        /\ call.raw.t = "dict" => call.val.d = call.raw.d
        /\ call.raw = None => call.val.d = <<>>
        /\ (call.raw.t = "str" /\ Places(call.raw.s, "=") = {}) =>
             call.val.d = << <<call.raw.s, None>> >>
        /\ (call.raw.t = "str" /\ Cardinality(Places(call.raw.s, "=")) = 1) =>
             \E i \in Places(call.raw.s, "=") :
                call.val.d =
                  << <<SubSeq(call.raw.s, 1, i - 1),
                       StrV(SubSeq(call.raw.s, i + 1, Len(call.raw.s)))>> >>

\* C17: dictionary coercion, amended.  A native mapping is returned as it
\* is; a string is stripped of leading and trailing whitespace; if the
\* stripped text has exactly one "=", it becomes {key: value} with the text
\* before it as key and the text after it as value, a string; any other
\* string becomes {stripped text: null}; null becomes {}.
C17_DictCoercion ==
    call.kind = "to_dict" =>
        /\ call.raw.t = "dict" => call.val.d = call.raw.d
        /\ call.raw = None => call.val.d = <<>>
        /\ (call.raw.t = "str" /\ Cardinality(Places(Strip(call.raw.s), "=")) # 1) =>
             call.val.d = << <<Strip(call.raw.s), None>> >>
        /\ (call.raw.t = "str" /\ Cardinality(Places(Strip(call.raw.s), "=")) = 1) =>
             \E i \in Places(Strip(call.raw.s), "=") :
                call.val.d =
                  << <<SubSeq(Strip(call.raw.s), 1, i - 1),
                       StrV(SubSeq(Strip(call.raw.s), i + 1,
                                   Len(Strip(call.raw.s))))>> >>
        /\ call.raw = StrV(<<"k", "e", "y", "=", "4", "2">>) =>
             call.val.d = << <<key, StrV(<<"4", "2">>)>> >>
        /\ call.raw = StrV(key) => call.val.d = << <<key, None>> >>

\* a string key=value with a leading space
C17_Witness ==
    /\ call.kind = "to_dict"
    /\ call.raw = StrV(<<" ", "a", "=">>)
    /\ call.val.d = << <<(<<"a">>), StrV(<<>>)>> >>

----------------------------------------------------------------------------
(* Properties of the registries under to_value and to_data *)

\* the classes that cannot convert: the base classes and a List subclass
\* declared without an item type
Misconfigured == {"Dictionary", "List", "BareList"}

\* C18: configuration errors.  to_value and to_data of a List subclass with
\* no item type, and of the base classes Dictionary and List, raise for
\* every input, null included, return no value and leave every registry as
\* it was.
C18_ConfigurationErrors ==
    (call.kind \in {"to_value", "to_data"} /\ call.cls \in Misconfigured) =>
        /\ call.err
        /\ call.val = None
        /\ yorm_attrs = call.before

\* to_data(None) of the List subclass without an item type, with a grown
\* registry of another class around it
C18_Witness ==
    /\ call.kind = "to_data" /\ call.cls = "BareList" /\ call.raw = None
    /\ call.err
    /\ HasKey(yorm_attrs["D1"], key)

\* C19: schema growth is append-only.  No to_value or to_data call removes
\* an entry from the registry of a Dictionary subclass or replaces the
\* converter of a field; an entry is added only to the registry of the class
\* called, for a key of the raw input absent from the registry, with the
\* converter matched to the data of that key.
C19_AppendOnly ==
    [][\A cls \in DictSubclasses :
          /\ \A name \in Keys(yorm_attrs[cls]) :
                /\ HasKey(yorm_attrs'[cls], name)
                /\ DGet(yorm_attrs'[cls], name, "Object") =
                     DGet(yorm_attrs[cls], name, "Object")
          /\ Len(yorm_attrs'[cls]) = Cardinality(Keys(yorm_attrs'[cls]))
          /\ \A name \in Keys(yorm_attrs'[cls]) \ Keys(yorm_attrs[cls]) :
                /\ cls = call'.cls
                /\ HasKey(to_dict(call'.raw), name)
                /\ DGet(yorm_attrs'[cls], name, "Object") =
                     match(DGet(to_dict(call'.raw), name, None))]_vars

\* count was discovered with string data, and now comes with an integer
C19_Witness ==
    /\ call.kind \in {"to_value", "to_data"} /\ call.cls = "D1"
    /\ call.raw = DocA
    /\ match(DGet(call.raw.d, count, None)) = "Integer"
    /\ DGet(call.before["D1"], count, "Object") = "String"
    /\ DGet(yorm_attrs["D1"], count, "Object") = "String"

\* C20: discovered fields are sticky.  Every to_value and to_data call on a
\* Dictionary subclass completes, and for every field in the registry at
\* the time of the call that the raw input lacks, a discovered field
\* included, the result holds the field with the value its converter gives
\* for None.
C20_StickyFields ==
    (call.kind \in {"to_value", "to_data"} /\ call.cls \in DictSubclasses) =>
        /\ ~call.err
        /\ \A name \in Keys(call.before[call.cls]) \ Keys(to_dict(call.raw)) :
              /\ HasKey(call.val.d, name)
              /\ DGet(call.val.d, name, None) =
                   (IF call.kind = "to_value"
                    THEN field_to_value(DGet(call.before[call.cls], name, "Object"),
                                        None, call.before).val
                    ELSE field_to_data(DGet(call.before[call.cls], name, "Object"),
                                       None, call.before).val)

\* key, never declared, was discovered with a string by an earlier call; a
\* call with a raw input without it returns it as the empty string
C20_Witness ==
    /\ call.kind = "to_value" /\ call.cls = "D1" /\ ~call.err
    /\ call.raw = DocB
    /\ DGet(call.before["D1"], key, "Object") = "String"
    /\ HasKey(call.val.d, key)
    /\ DGet(call.val.d, key, None) = StrV(<<>>)

====
